---- MODULE Spec2Model ----
(***************************************************************************)
(* A model of j-law-grep: the citation parser, the query builder and hit   *)
(* enricher of the search service, the e-Gov XML importer, the flattening  *)
(* pipeline and the OpenSearch backend (ensure_index, bulk).               *)
(*                                                                         *)
(* Strings are sequences of one-character tokens.  A token is a TLA+       *)
(* string naming one character:                                            *)
(*   "0".."9"       ASCII digits          "fw0".."fw9"  full-width digits  *)
(*   "k0"  (U+3007) "rei" (zero kanji)    "k1".."k9"    kanji digits       *)
(*   "k10" "k100" "k1000"                 the kanji units                  *)
(*   "dai" "jo" "kou" "gou"               the citation markers             *)
(*   "min" "hou"                          two plain kanji (as in a name)   *)
(*   " " "ids"                            space, ideographic space         *)
(*   "ten"                                the ideographic comma            *)
(*   "a" "b" "(" ")" "*" "/" "-" "big"    ASCII; "big" is a repeat count   *)
(*                                        {n} with n >= MAXREPEAT          *)
(*   "c" "l" "x" "N" "o" "n" "e"          more ASCII letters               *)
(*   "<mark>" "</mark>"                   the highlight markers, one token *)
(*                                        each; the text of a snippet is   *)
(*                                        written with characters that do  *)
(*                                        not occur in the marker strings  *)
(* An optional value is a tuple: None is <<>> and Some(x) is <<x>>.        *)
(***************************************************************************)
EXTENDS Integers, Sequences, FiniteSets, TLC

VARIABLES
  form,      \* citation parser: the pieces the input text was written from
  text,      \* citation parser: the input text
  citation,  \* citation parser: the Citation returned
  cpc,       \* citation parser: "input" | "parsed" | "off"
  kin,       \* kanji decoder: the input and how it was written
  kout,      \* kanji decoder: the value returned
  kpc,       \* kanji decoder: "input" | "done" | "off"
  params,    \* query builder: the SearchParams (q, mode, filters)
  body,      \* query builder: what build_query returned or raised
  qpc,       \* query builder: "input" | "built" | "off"
  snippet,   \* highlight repair: the snippet handed to _ensure_highlight
  hquery,    \* highlight repair: the query text
  marked,    \* highlight repair: the snippet returned
  mpc,       \* highlight repair: "input" | "done" | "off"
  hit,       \* hit enricher: the raw hit (_id, _source, highlight)
  hitquery,  \* hit enricher: the query text
  converted, \* hit enricher: what _convert_hit returned or raised
  hpc,       \* hit enricher: "input" | "done" | "off"
  corpus,    \* flattener: the *.json files of the input directory, by name
  listing,   \* flattener: the order glob listed the files in, last run
  runs,      \* flattener: the index actions each run produced
  fpc,       \* flattener: "on" | "off"
  xform,     \* importer: the pieces the XML document was written from
  xml,       \* importer: the file (root element, file name stem)
  law,       \* importer: the Law record parse_law returned
  xpc,       \* importer: "input" | "done" | "off"
  actions,   \* bulk: the actions handed to bulk
  chunk_size,      \* bulk: the chunk_size argument
  refresh_at_end,  \* bulk: the refresh_at_end argument
  sent,      \* bulk: how many actions the chunk generator has consumed
  log,       \* bulk: the requests made to the client, in order
  bpc,       \* bulk: "call" | "loop" | "refresh" | "returned" | "raised" | "off"
  exists,    \* index: whether the index exists on the server
  epc,       \* index: each caller's position in ensure_index
  calls,     \* index: how many calls each caller has started
  creates    \* index: the create requests issued, in order

citVars == <<form, text, citation, cpc>>
kanjiVars == <<kin, kout, kpc>>
queryVars == <<params, body, qpc>>
markVars == <<snippet, hquery, marked, mpc>>
hitVars == <<hit, hitquery, converted, hpc>>
flatVars == <<corpus, listing, runs, fpc>>
xmlVars == <<xform, xml, law, xpc>>
bulkVars == <<actions, chunk_size, refresh_at_end, sent, log, bpc>>
idxVars == <<exists, epc, calls, creates>>
vars ==
  <<citVars, kanjiVars, queryVars, markVars, hitVars, flatVars, xmlVars,
    bulkVars, idxVars>>

\* a value that is an integer, a string or None carries its type
IntV(n) == [t |-> "int", v |-> n]
StrV(x) == [t |-> "str", v |-> x]
NoneV == [t |-> "none"]

None == <<>>
Some(x) == <<x>>
Get(o) == o[1]

\* Python truthiness of an optional string
TruthyStr(o) == o # None /\ Get(o) # <<>>

(***************************************************************************)
(* Characters                                                              *)
(***************************************************************************)
AsciiDigitTok == <<"0", "1", "2", "3", "4", "5", "6", "7", "8", "9">>
FullwidthDigitTok ==
  <<"fw0", "fw1", "fw2", "fw3", "fw4", "fw5", "fw6", "fw7", "fw8", "fw9">>
KanjiDigitTok == <<"k0", "k1", "k2", "k3", "k4", "k5", "k6", "k7", "k8", "k9">>

AsciiDigits == {AsciiDigitTok[i] : i \in 1..10}
FullwidthDigitSet == {FullwidthDigitTok[i] : i \in 1..10}

\* index (1-based) of token c in the tuple t
IndexOf(t, c) == CHOOSE i \in 1..Len(t) : t[i] = c

\* str.translate(FULLWIDTH_DIGITS), one character
TranslateChar(c) ==
  IF c \in FullwidthDigitSet
  THEN AsciiDigitTok[IndexOf(FullwidthDigitTok, c)]
  ELSE c

\* str.translate(FULLWIDTH_DIGITS)
FULLWIDTH_DIGITS(s) == [i \in 1..Len(s) |-> TranslateChar(s[i])]

KANJI_DIGITS ==
  "k0" :> 0 @@ "rei" :> 0 @@ "k1" :> 1 @@ "k2" :> 2 @@ "k3" :> 3 @@ "k4" :> 4
  @@ "k5" :> 5 @@ "k6" :> 6 @@ "k7" :> 7 @@ "k8" :> 8 @@ "k9" :> 9

KANJI_UNITS == "k10" :> 10 @@ "k100" :> 100 @@ "k1000" :> 1000

\* \s of the re module (Unicode whitespace)
Whitespace == {" ", "ids"}

\* the class [0-9 kanji digits, units, U+3007, zero kanji] of the pattern
NumeralClass == AsciiDigits \cup DOMAIN KANJI_DIGITS \cup DOMAIN KANJI_UNITS

\* \w of the re module: letters, digits, underscore; every kanji is a letter
WordChars ==
  AsciiDigits \cup FullwidthDigitSet \cup DOMAIN KANJI_DIGITS
  \cup DOMAIN KANJI_UNITS \cup {"dai", "jo", "kou", "gou", "min", "hou", "a", "b"}

\* the class of the law group: \w - nakaguro parentheses U+3000 \s kanji
LawClass == WordChars \cup Whitespace \cup {"-", "(", ")"}

\* str.isdigit() on a non-empty string of the model's characters
IsDigitStr(s) == s # <<>> /\ \A i \in 1..Len(s) : s[i] \in AsciiDigits \cup FullwidthDigitSet

RECURSIVE DecValue(_)
\* int(s) for a string of ASCII or full-width digits
DecValue(s) ==
  IF s = <<>> THEN 0
  ELSE 10 * DecValue(SubSeq(s, 1, Len(s) - 1))
       + (IndexOf(AsciiDigitTok, TranslateChar(s[Len(s)])) - 1)

RECURSIVE IntToStr(_)
\* str(n) for n >= 0
IntToStr(n) ==
  IF n < 10 THEN <<AsciiDigitTok[n + 1]>>
  ELSE IntToStr(n \div 10) \o <<AsciiDigitTok[(n % 10) + 1]>>

RECURSIVE LStrip(_)
LStrip(s) == IF s # <<>> /\ s[1] \in Whitespace THEN LStrip(Tail(s)) ELSE s

RECURSIVE RStrip(_)
RStrip(s) ==
  IF s # <<>> /\ s[Len(s)] \in Whitespace
  THEN RStrip(SubSeq(s, 1, Len(s) - 1)) ELSE s

\* str.strip()
Strip(s) == LStrip(RStrip(s))

(***************************************************************************)
(* citation.py: _kanji_to_int, _normalize_number                           *)
(***************************************************************************)
\* the digit branch of the loop: current += KANJI_DIGITS[ch]
KanjiDigitStep(acc, ch) ==
  [acc EXCEPT !.current = acc.current + KANJI_DIGITS[ch]]

\* the unit branch: an absent digit counts as 1; total += current * unit
KanjiUnitStepBug(acc, ch) ==
  [acc EXCEPT !.total = acc.total + acc.current * KANJI_UNITS[ch],
              !.current = 0]

KanjiUnitStep(acc, ch) ==
  LET cur == IF acc.current = 0 THEN 1 ELSE acc.current
  IN [acc EXCEPT !.total = acc.total + cur * KANJI_UNITS[ch],
                 !.current = 0]

RECURSIVE KanjiLoop(_, _)
\* the for loop of _kanji_to_int from accumulator acc over the rest of value
KanjiLoop(acc, value) ==
  IF value = <<>> \/ ~acc.ok THEN acc
  ELSE LET ch == Head(value)
       IN IF ch \in DOMAIN KANJI_DIGITS
          THEN KanjiLoop(KanjiDigitStep(acc, ch), Tail(value))
          ELSE IF ch \in DOMAIN KANJI_UNITS
          THEN KanjiLoop(KanjiUnitStep(acc, ch), Tail(value))
          ELSE [acc EXCEPT !.ok = FALSE]

kanji_to_int(value) ==
  IF value = <<>> THEN None
  ELSE LET acc == KanjiLoop([total |-> 0, current |-> 0, ok |-> TRUE], value)
       IN IF acc.ok THEN Some(acc.total + acc.current) ELSE None

\* value is an optional string
normalize_number(value) ==
  IF value = None THEN None
  ELSE LET normalized == FULLWIDTH_DIGITS(Get(value))
       IN IF IsDigitStr(normalized) THEN Some(DecValue(normalized))
          ELSE kanji_to_int(normalized)

(***************************************************************************)
(* citation.py: parse_citation                                             *)
(***************************************************************************)
\* The pattern is, in order:
\*   an optional group: the law group [LawClass]+? (lazy), then \s* ;
\*   an optional "dai"; the article group [Numeral]+ ; "jo";
\*   an optional group: \s* , the paragraph group [Numeral]+ , "kou";
\*   an optional group: \s* , the item group [Numeral]+ , "gou".
\* search() returns the match at the leftmost start that has one, and at a
\* start the first match in backtracking order: an optional group is tried
\* before it is skipped, * and + take the longest run first, +? the shortest.
RECURSIVE RunLen(_, _, _)
\* the number of consecutive characters of class C in s from position p
RunLen(s, p, C) ==
  IF p <= Len(s) /\ s[p] \in C THEN 1 + RunLen(s, p + 1, C) ELSE 0

SetMax(S) == CHOOSE x \in S : \A y \in S : y <= x
SetMin(S) == CHOOSE x \in S : \A y \in S : x <= y

NoGroup == [ok |-> FALSE, raw |-> <<>>, end |-> 0]

\* (?P<g>[Numeral]+)closer at position p: the greedy run, backtracking
\* until closer follows; end is the position after closer
NumRun(s, p, closer) ==
  LET ns == {n \in 1..RunLen(s, p, NumeralClass) :
               p + n <= Len(s) /\ s[p + n] = closer}
  IN IF ns = {} THEN NoGroup
     ELSE [ok |-> TRUE, raw |-> SubSeq(s, p, p + SetMax(ns) - 1),
           end |-> p + SetMax(ns) + 1]

\* of the alternatives f[x], those with the larger x tried first (a greedy
\* repeat), the first that matches; none when no alternative matches
FirstGreedy(f, none) ==
  LET ok == {x \in DOMAIN f : f[x].ok}
  IN IF ok = {} THEN none ELSE f[SetMax(ok)]

\* the same with the smaller x tried first (a lazy repeat, a leftmost start)
FirstLazy(f, none) ==
  LET ok == {x \in DOMAIN f : f[x].ok}
  IN IF ok = {} THEN none ELSE f[SetMin(ok)]

\* \s*(?P<g>[Numeral]+)closer at position p: greedy whitespace first
WsNumRun(s, p, closer) ==
  FirstGreedy([w \in 0..RunLen(s, p, Whitespace) |-> NumRun(s, p + w, closer)],
              NoGroup)

NoCore == [ok |-> FALSE, article |-> <<>>, paragraph |-> None, item |-> None]

\* the groups of a match: article a, optional paragraph and item groups
CoreGroups(a, para, item) ==
  [ok |-> TRUE, article |-> a.raw,
   paragraph |-> IF para.ok THEN Some(para.raw) ELSE None,
   item |-> IF item.ok THEN Some(item.raw) ELSE None]

\* the optional item group, after the paragraph group when that matched
ItemAfter(s, a, para) ==
  CoreGroups(a, para,
             WsNumRun(s, IF para.ok THEN para.end ELSE a.end, "gou"))

\* the optional paragraph group after the article group a
ParagraphAfter(s, a) ==
  IF ~a.ok THEN NoCore ELSE ItemAfter(s, a, WsNumRun(s, a.end, "kou"))

\* [Numeral]+ jo, then the optional paragraph and item groups, at position p
ArticleAt(s, p) == ParagraphAfter(s, NumRun(s, p, "jo"))

\* (?:dai)? with the rest at p + 1 tried first, then the rest at p
DaiChoice(s, p, at) ==
  IF p <= Len(s) /\ s[p] = "dai" /\ at[p + 1].ok THEN at[p + 1] ELSE at[p]

\* (?:dai)? and the rest of the pattern at position p
CoreAt(s, p) == DaiChoice(s, p, [x \in {p, p + 1} |-> ArticleAt(s, x)])

\* The law group taken with k characters at start i (k = 0: the group is
\* skipped, and its \s* with it): \s* greedy, then the core
LawTail(s, i, k) ==
  FirstGreedy([w \in 0..(IF k = 0 THEN 0 ELSE RunLen(s, i + k, Whitespace))
                 |-> CoreAt(s, i + k + w)],
              NoCore)

NoMatch == [ok |-> FALSE, law |-> None, article |-> <<>>,
            paragraph |-> None, item |-> None]

\* the match of the pattern at start i with the law group k characters long
MatchWith(s, i, k, c) ==
  [ok |-> c.ok,
   law |-> IF k = 0 THEN None ELSE Some(SubSeq(s, i, i + k - 1)),
   article |-> c.article, paragraph |-> c.paragraph, item |-> c.item]

\* the lazy law group takes the longest run that matches (a greedy +)
LawChoiceGreedy(s, i, tail) ==
  LET ks == {k \in DOMAIN tail : k > 0 /\ tail[k].ok}
      k == IF ks # {} THEN SetMax(ks) ELSE 0
  IN MatchWith(s, i, k, tail[k])

\* the optional law group is tried first, lazily (fewest characters first),
\* and skipped (k = 0) only when no length matches; tail[k] is the rest of
\* the pattern after a law group of k characters
LawChoice(s, i, tail) ==
  LET ks == {k \in DOMAIN tail : k > 0 /\ tail[k].ok}
      k == IF ks # {} THEN SetMin(ks) ELSE 0
  IN MatchWith(s, i, k, tail[k])

\* the match of the whole pattern at start i
MatchAt(s, i) ==
  LawChoice(s, i, [k \in 0..RunLen(s, i, LawClass) |-> LawTail(s, i, k)])

\* pattern.search(normalized): the match at the leftmost start that has one
PatternSearch(s) == FirstLazy([i \in 1..Len(s) |-> MatchAt(s, i)], NoMatch)

\* the article number as parse_citation renders it
ArticleNo(article_raw) ==
  LET article_no == FULLWIDTH_DIGITS(article_raw)
  IN IF IsDigitStr(article_no) THEN article_no
     ELSE LET kanji == kanji_to_int(article_raw)
          IN IF kanji # None THEN IntToStr(Get(kanji)) ELSE article_raw

NoCitation ==
  [law_name |-> None, article_no |-> None, paragraph_no |-> None, item_no |-> None]

\* the Citation built from a match (lines 89-114)
CitationOf(match) ==
  IF ~match.ok THEN NoCitation
  ELSE [law_name |-> IF TruthyStr(match.law)
                     THEN Some(Strip(Get(match.law))) ELSE match.law,
        article_no |-> Some(ArticleNo(match.article)),
        paragraph_no |-> normalize_number(match.paragraph),
        item_no |-> normalize_number(match.item)]

parse_citation(t) == CitationOf(PatternSearch(FULLWIDTH_DIGITS(t)))

(***************************************************************************)
(* citation.py: citation_key                                               *)
(***************************************************************************)
\* "".join(parts): the parts run together
JoinNoSpace(parts) ==
  IF parts = <<>> THEN <<>>
  ELSE LET F[i \in 1..Len(parts)] ==
             IF i = 1 THEN parts[1] ELSE F[i - 1] \o parts[i]
       IN F[Len(parts)]

\* " ".join(parts)
JoinSpace(parts) ==
  IF parts = <<>> THEN <<>>
  ELSE LET F[i \in 1..Len(parts)] ==
             IF i = 1 THEN parts[1] ELSE F[i - 1] \o <<" ">> \o parts[i]
       IN F[Len(parts)]

\* the key from the law name, the article number and the paragraph and
\* item numbers already rendered by str() (None when absent)
CitationKeyOf(law_name, article_no, paragraph, item) ==
  IF ~TruthyStr(law_name) \/ ~TruthyStr(article_no) THEN None
  ELSE Some(JoinSpace(
         <<Strip(Get(law_name)), Get(article_no) \o <<"jo">> >>
         \o (IF paragraph # None THEN <<Get(paragraph) \o <<"kou">> >> ELSE <<>>)
         \o (IF item # None THEN <<Get(item) \o <<"gou">> >> ELSE <<>>)))

\* str() of an optional integer
OptIntStr(o) == IF o = None THEN None ELSE Some(IntToStr(Get(o)))

\* citation_key of a Citation returned by parse_citation
citation_key(c) ==
  CitationKeyOf(c.law_name, c.article_no, OptIntStr(c.paragraph_no),
                OptIntStr(c.item_no))

(***************************************************************************)
(* service.py: build_query                                                 *)
(***************************************************************************)
\* One step of the re module's parser over the characters the model's
\* queries are written with: "(" opens a group, ")" closes one, "*" repeats
\* the item before it, "big" is a repeat count of MAXREPEAT or more; every
\* other character is a literal.  st.prev is what precedes: "none" (nothing
\* to repeat), "item" or "repeat".
ReStep(st, c) ==
  IF st.res # "ok" THEN st
  ELSE IF c = "big" THEN [st EXCEPT !.res = "OverflowError"]
  ELSE IF c = "*"
  THEN IF st.prev = "item" THEN [st EXCEPT !.prev = "repeat"]
       ELSE [st EXCEPT !.res = "re.error"]
  ELSE IF c = "("
  THEN [st EXCEPT !.depth = st.depth + 1, !.prev = "none"]
  ELSE IF c = ")"
  THEN IF st.depth = 0 THEN [st EXCEPT !.res = "re.error"]
       ELSE [st EXCEPT !.depth = st.depth - 1, !.prev = "item"]
  ELSE [st EXCEPT !.prev = "item"]

\* re.compile(q): "ok", or the exception raised
ReCompile(q) ==
  LET F[i \in 0..Len(q)] ==
        IF i = 0 THEN [res |-> "ok", depth |-> 0, prev |-> "none"]
        ELSE ReStep(F[i - 1], q[i])
  IN IF F[Len(q)].res = "ok" /\ F[Len(q)].depth > 0 THEN "re.error"
     ELSE F[Len(q)].res

TermClause(field, value) == [kind |-> "term", field |-> field, value |-> value]

PrefixClause(field, value) ==
  [kind |-> "match_phrase_prefix", field |-> field, value |-> value]

RegexpClause(q) ==
  [kind |-> "regexp", field |-> "content", value |-> q, flags |-> "ALL"]

\* a match_phrase clause on content; slop None: the clause has no slop key
PhraseClause(q, slop) ==
  [kind |-> "match_phrase", field |-> "content", query |-> q,
   analyzer |-> "whitespace", slop |-> slop]

\* the must list (lines 35-57) given what re.compile(q) did; <<>> stands
\* for an exception that is not caught
MustClauses(q, mode, compiled) ==
  IF mode = "regex"
  THEN IF compiled = "ok" THEN <<RegexpClause(q)>>
       ELSE IF compiled = "re.error" THEN <<PhraseClause(q, None)>>
       ELSE <<>>
  ELSE <<PhraseClause(q, Some(0))>>

\* the paragraph and item clauses added by truthiness: number 0 is left out
FilterClausesTruthy(law_filter, year_filter, c) ==
  (IF TruthyStr(law_filter)
   THEN <<TermClause("law_name", StrV(Get(law_filter)))>> ELSE <<>>)
  \o (IF TruthyStr(year_filter)
      THEN <<TermClause("year_enforced", StrV(Get(year_filter)))>> ELSE <<>>)
  \o (IF TruthyStr(c.law_name)
      THEN <<TermClause("law_name", StrV(Get(c.law_name)))>> ELSE <<>>)
  \o (IF TruthyStr(c.article_no)
      THEN <<TermClause("article_no", StrV(Get(c.article_no)))>> ELSE <<>>)
  \o (IF c.paragraph_no # None /\ Get(c.paragraph_no) # 0
      THEN <<TermClause("paragraph_no", IntV(Get(c.paragraph_no)))>> ELSE <<>>)
  \o (IF c.item_no # None /\ Get(c.item_no) # 0
      THEN <<TermClause("item_no", IntV(Get(c.item_no)))>> ELSE <<>>)

\* filter_clauses in the order the code appends them (lines 58-76)
FilterClauses(law_filter, year_filter, c) ==
  (IF TruthyStr(law_filter)
   THEN <<TermClause("law_name", StrV(Get(law_filter)))>> ELSE <<>>)
  \o (IF TruthyStr(year_filter)
      THEN <<TermClause("year_enforced", StrV(Get(year_filter)))>> ELSE <<>>)
  \o (IF TruthyStr(c.law_name)
      THEN <<TermClause("law_name", StrV(Get(c.law_name)))>> ELSE <<>>)
  \o (IF TruthyStr(c.article_no)
      THEN <<TermClause("article_no", StrV(Get(c.article_no)))>> ELSE <<>>)
  \o (IF c.paragraph_no # None
      THEN <<TermClause("paragraph_no", IntV(Get(c.paragraph_no)))>> ELSE <<>>)
  \o (IF c.item_no # None
      THEN <<TermClause("item_no", IntV(Get(c.item_no)))>> ELSE <<>>)

\* should in the order the code appends (lines 61-79)
ShouldClauses(law_filter, c, key) ==
  (IF TruthyStr(law_filter)
   THEN <<PrefixClause("law_name.prefix", Get(law_filter))>> ELSE <<>>)
  \o (IF TruthyStr(c.law_name)
      THEN <<PrefixClause("law_name.prefix", Get(c.law_name))>> ELSE <<>>)
  \o (IF TruthyStr(key)
      THEN <<PrefixClause("citation_key.prefix", Get(key))>> ELSE <<>>)

highlight_config ==
  [field |-> "content", type |-> "unified", number_of_fragments |-> 3,
   fragment_size |-> 120, no_match_size |-> 120,
   pre_tags |-> <<"<mark>">>, post_tags |-> <<"</mark>">>]

\* the should and minimum_should_match keys are always set
QueryBoolAlways(must, filter, should) ==
  [raised |-> "none", must |-> must, filter |-> filter,
   should |-> Some(should), minimum_should_match |-> Some(1),
   highlight |-> highlight_config]

\* the returned body (lines 81-94); a key that is not set is None
QueryBool(must, filter, should) ==
  [raised |-> "none", must |-> must, filter |-> filter,
   should |-> IF should # <<>> THEN Some(should) ELSE None,
   minimum_should_match |-> IF should # <<>> THEN Some(1) ELSE None,
   highlight |-> highlight_config]

\* build_query ended by the exception exc
QueryRaised(exc) ==
  [raised |-> exc, must |-> <<>>, filter |-> <<>>, should |-> None,
   minimum_should_match |-> None, highlight |-> highlight_config]

\* build_query after the must list is built
QueryAfterMust(p, c, must, compiled) ==
  IF must = <<>> THEN QueryRaised(compiled)
  ELSE QueryBool(must, FilterClauses(p.filters.law, p.filters.year, c),
                 ShouldClauses(p.filters.law, c, citation_key(c)))

\* build_query after parse_citation returned c
QueryOfCitation(p, c, compiled) ==
  QueryAfterMust(p, c, MustClauses(p.q, p.mode, compiled), compiled)

build_query(p) == QueryOfCitation(p, parse_citation(p.q), ReCompile(p.q))

(***************************************************************************)
(* service.py: _ensure_highlight.  The markers "<mark>" and "</mark>" are  *)
(* one token each.                                                         *)
(***************************************************************************)
OPEN == "<mark>"
CLOSE == "</mark>"

\* snippet.count(m)
Count(x, m) == Cardinality({i \in 1..Len(x) : x[i] = m})

\* snippet.replace(m, "", 1): the first m removed
RemoveFirst(x, m) ==
  LET at == {i \in 1..Len(x) : x[i] = m}
  IN IF at = {} THEN x
     ELSE SubSeq(x, 1, SetMin(at) - 1) \o SubSeq(x, SetMin(at) + 1, Len(x))

\* snippet.rsplit(m, 1)[0]: what precedes the last m
BeforeLast(x, m) ==
  LET at == {i \in 1..Len(x) : x[i] = m}
  IN IF at = {} THEN x ELSE SubSeq(x, 1, SetMax(at) - 1)

\* query occurs in x at position i
OccursAt(x, i, query) ==
  i + Len(query) - 1 <= Len(x) /\ SubSeq(x, i, i + Len(query) - 1) = query

\* only the first occurrence is wrapped
ReSubFirst(query, x) ==
  LET at == {i \in 1..Len(x) : OccursAt(x, i, query)}
  IN IF at = {} THEN x
     ELSE SubSeq(x, 1, SetMin(at) - 1) \o <<OPEN>> \o query \o <<CLOSE>>
          \o SubSeq(x, SetMin(at) + Len(query), Len(x))

\* re.sub(re.escape(query), wrap, x) for a non-empty query: the occurrences
\* found left to right, each search resuming after the previous match
ReSub(query, x) ==
  LET F[i \in 1..(Len(x) + 1)] ==
        IF i > Len(x) THEN <<>>
        ELSE IF OccursAt(x, i, query)
        THEN <<OPEN>> \o query \o <<CLOSE>>
             \o F[IF i + Len(query) > Len(x) THEN Len(x) + 1 ELSE i + Len(query)]
        ELSE <<x[i]>> \o F[i + 1]
  IN F[1]

\* the whole-fragment wrap: one "<mark>", at the start, and "</mark>" last
WrappedOnce(x) ==
  Count(x, OPEN) = 1 /\ x[1] = OPEN /\ x[Len(x)] = CLOSE

ensure_highlight(x, query) ==
  IF query = <<>> THEN x
  ELSE IF Count(x, OPEN) > 0
  THEN IF WrappedOnce(x)
       THEN ReSub(query, BeforeLast(RemoveFirst(x, OPEN), CLOSE))
       ELSE x
  ELSE ReSub(query, x)

(***************************************************************************)
(* service.py: _extract_*_from_url, _extract_article_from_path,            *)
(* _convert_hit; open_search_client.py: SearchHit                          *)
(***************************************************************************)
RECURSIVE RunLenNot(_, _, _)
\* the number of consecutive characters other than c in x from position p
RunLenNot(x, p, c) ==
  IF p <= Len(x) /\ x[p] # c THEN 1 + RunLenNot(x, p + 1, c) ELSE 0

\* "/a/" stands at position i of url
SlashASlashAt(url, i) ==
  i + 2 <= Len(url) /\ url[i] = "/" /\ url[i + 1] = "a" /\ url[i + 2] = "/"

\* re.search(r"/a/([^/]+)", url): group 1 of the leftmost match, else ""
extract_article_from_url(url) ==
  LET at == {i \in 1..Len(url) :
               SlashASlashAt(url, i) /\ RunLenNot(url, i + 3, "/") >= 1}
  IN IF at = {} THEN <<>>
     ELSE SubSeq(url, SetMin(at) + 3,
                 SetMin(at) + 2 + RunLenNot(url, SetMin(at) + 3, "/"))

\* path.split("/")[1] when there are two parts or more, else ""
extract_article_from_path(path) ==
  LET at == {i \in 1..Len(path) : path[i] = "/"}
  IN IF at = {} THEN <<>>
     ELSE SubSeq(path, SetMin(at) + 1,
                 SetMin(at) + RunLenNot(path, SetMin(at) + 1, "/"))

\* \d of the re module on the model's characters
DigitChars == AsciiDigits \cup FullwidthDigitSet

\* the position of group 1 of r"/a/[^/]+/(\d+)" matched at start i, else 0
ParagraphGroupAt(url, i) ==
  LET p == i + 3 + RunLenNot(url, i + 3, "/")
  IN IF /\ SlashASlashAt(url, i)
        /\ p > i + 3
        /\ p <= Len(url)
        /\ RunLen(url, p + 1, DigitChars) >= 1
     THEN p + 1 ELSE 0

\* re.search(r"/a/[^/]+/(\d+)", url): int(group 1) of the leftmost match
extract_paragraph_from_url(url) ==
  LET at == {i \in 1..Len(url) : ParagraphGroupAt(url, i) > 0}
      g == ParagraphGroupAt(url, SetMin(at))
  IN IF at = {} THEN None
     ELSE Some(DecValue(SubSeq(url, g, g + RunLen(url, g, DigitChars) - 1)))

\* the fields of the SearchHit dataclass
SearchHitFields == {"file_id", "path", "line", "snippet", "url", "blocks"}

\* a or b of two strings
OrStr(a, b) == IF a # <<>> THEN a ELSE b

\* an optional string or ""
OrEmpty(o) == IF TruthyStr(o) THEN Get(o) ELSE <<>>

\* the path of the result (lines 123-124)
HitPath(path, law_name, article_no) ==
  IF path = <<>> /\ law_name # <<>>
  THEN IF article_no # <<>> THEN law_name \o <<"/">> \o article_no ELSE law_name
  ELSE path

\* the keyword arguments _convert_hit passes to SearchHit (lines 110-135)
HitArgs(h, query, article_no) ==
  [file_id |-> h.id,
   law_name |-> OrEmpty(h.source.law_name),
   article_no |-> article_no,
   paragraph_no |-> IF h.source.paragraph_no = None
                    THEN extract_paragraph_from_url(OrEmpty(h.source.url))
                    ELSE h.source.paragraph_no,
   item_no |-> h.source.item_no,
   path |-> HitPath(OrEmpty(h.source.path), OrEmpty(h.source.law_name),
                    article_no),
   line |-> h.source.line,
   snippet |-> ensure_highlight(OrStr(h.highlight, h.source.content), query),
   url |-> OrEmpty(h.source.url),
   blocks |-> h.source.blocks]

\* the article number of the result (lines 114, 119-120)
HitArticleNo(h) ==
  OrStr(OrEmpty(h.source.article_no),
        OrStr(extract_article_from_url(OrEmpty(h.source.url)),
              extract_article_from_path(OrEmpty(h.source.path))))

NoResult ==
  [raised |-> "none", file_id |-> <<>>, law_name |-> <<>>, article_no |-> <<>>,
   paragraph_no |-> None, item_no |-> None, path |-> <<>>, line |-> 0,
   snippet |-> <<>>, url |-> <<>>, blocks |-> <<>>]

\* SearchHit(**args) and the result built from it: the dataclass __init__
\* raises TypeError for a keyword that is not one of its fields
SearchHitResult(args) ==
  IF DOMAIN args = SearchHitFields
  THEN [raised |-> "none"] @@ args @@ NoResult
  ELSE [NoResult EXCEPT !.raised = "TypeError"]

convert_hit(h, query) == SearchHitResult(HitArgs(h, query, HitArticleNo(h)))

(***************************************************************************)
(* pipeline.py: normalize_text, load_documents, collect_records,           *)
(* to_index_actions.  A JSON number-or-null is IntV(n), StrV(s) or NoneV;  *)
(* a key that may be missing is an optional value.                         *)
(***************************************************************************)
\* the concatenation of f(s[1]), ..., f(s[Len(s)])
FlatMap(f(_), s) ==
  LET F[i \in 0..Len(s)] == IF i = 0 THEN <<>> ELSE F[i - 1] \o f(s[i])
  IN F[Len(s)]

\* U+3000 replaced by a space and every whitespace run by one space
CollapseWhitespace(value) ==
  LET F[i \in 0..Len(value)] ==
        IF i = 0 THEN <<>>
        ELSE IF value[i] \notin Whitespace THEN Append(F[i - 1], value[i])
        ELSE IF i > 1 /\ value[i - 1] \in Whitespace THEN F[i - 1]
        ELSE Append(F[i - 1], " ")
  IN F[Len(value)]

normalize_text(value) == Strip(CollapseWhitespace(value))

\* str(v), bool(v) and f"{v or 0}" of a JSON value
PyStr(v) ==
  IF v.t = "int" THEN IntToStr(v.v) ELSE IF v.t = "str" THEN v.v
  ELSE <<"N", "o", "n", "e">>
Truthy(v) ==
  IF v.t = "int" THEN v.v # 0 ELSE IF v.t = "str" THEN v.v # <<>> ELSE FALSE
OrZero(v) == IF Truthy(v) THEN PyStr(v) ELSE <<"0">>

\* d.get(key, []) and d.get(key, "")
OrSeq(o) == IF o = None THEN <<>> ELSE Get(o)
OrText(o) == IF o = None THEN <<>> ELSE Get(o)

\* sorted(paths): file names are numbers that stand for their path order
Sorted(names) ==
  LET S == {names[i] : i \in 1..Len(names)}
  IN [i \in 1..Cardinality(S) |->
        CHOOSE x \in S : Cardinality({y \in S : y < x}) = i - 1]

\* the documents in the order glob listed them
LoadDocumentsUnsorted(files, names) ==
  [i \in 1..Len(names) |-> files[names[i]]]

\* the documents in sorted path order
load_documents(files, names) ==
  [i \in 1..Len(names) |-> files[Sorted(names)[i]]]

\* lines 55-67: the paragraphs of an article, or one made of its text
ParagraphsOf(article) ==
  IF OrSeq(article.paragraphs) = <<>>
  THEN <<[paragraph_no |-> NoneV,
          items |-> Some(<<[item_no |-> NoneV,
                            text |-> Some(OrText(article.text))]>>),
          text |-> None]>>
  ELSE Get(article.paragraphs)

\* lines 70-77: the items of a paragraph, or one made of its text
ItemsOf(paragraph) ==
  IF OrSeq(paragraph.items) = <<>>
  THEN <<[item_no |-> NoneV, text |-> Some(OrText(paragraph.text))]>>
  ELSE Get(paragraph.items)

\* lines 96-100
RecordUrl(law_id, article_no, paragraph_no, item_no) ==
  <<"/", "l", "/">> \o law_id \o <<"/", "a", "/">> \o article_no
  \o (IF Truthy(paragraph_no) THEN <<"/">> \o PyStr(paragraph_no) ELSE <<>>)
  \o (IF Truthy(item_no) THEN <<"/">> \o PyStr(item_no) ELSE <<>>)

\* lines 83-117: the IndexRecord of one item with normalized text
IndexRecord(doc, article_no, heading, paragraph_no, item_no, normalized) ==
  [law_id |-> doc.law_id,
   law_name |-> doc.law_name,
   law_aliases |-> OrSeq(doc.law_aliases),
   article_no |-> article_no,
   paragraph_no |-> paragraph_no,
   item_no |-> item_no,
   heading |-> heading,
   content |-> normalized,
   content_plain |-> normalized,
   citation |-> [law_name |-> doc.law_name, article_no |-> article_no,
                 paragraph_no |-> paragraph_no, item_no |-> item_no],
   year_enforced |-> doc.year_enforced,
   path |-> doc.law_name \o <<"/">> \o article_no,
   url |-> RecordUrl(doc.law_id, article_no, paragraph_no, item_no),
   blocks |-> <<[kind |-> "text", html |-> normalized]>>]

\* lines 78-118: an item with empty normalized text gives no record
ItemRecord(doc, article_no, heading, paragraph_no, item_no, normalized) ==
  IF normalized = <<>> THEN <<>>
  ELSE <<IndexRecord(doc, article_no, heading, paragraph_no, item_no, normalized)>>

ParagraphRecords(doc, article_no, heading, paragraph) ==
  FlatMap(LAMBDA item :
            ItemRecord(doc, article_no, heading, paragraph.paragraph_no,
                       item.item_no, normalize_text(OrText(item.text))),
          ItemsOf(paragraph))

ArticleRecords(doc, article) ==
  FlatMap(LAMBDA paragraph :
            ParagraphRecords(doc, PyStr(article.article_no),
                             normalize_text(OrText(article.heading)),
                             paragraph),
          ParagraphsOf(article))

DocRecords(doc) ==
  FlatMap(LAMBDA article : ArticleRecords(doc, article), OrSeq(doc.articles))

\* collect_records over the documents load_documents yields
collect_records(docs) == FlatMap(DocRecords, docs)

\* str() of a JSON value that is not None
NotNoneStr(v) == IF v.t = "none" THEN None ELSE Some(PyStr(v))

\* citation_key of the Citation of a record
RecordCitationKey(c) ==
  CitationKeyOf(Some(c.law_name), Some(c.article_no),
                NotNoneStr(c.paragraph_no), NotNoneStr(c.item_no))

\* line 143
DocId(record) ==
  record.law_id \o <<"-">> \o record.article_no \o <<"-">>
  \o OrZero(record.paragraph_no) \o <<"-">> \o OrZero(record.item_no)

\* lines 126-142: the _source of a record
SourceOf(record) ==
  [law_id |-> record.law_id,
   law_name |-> record.law_name,
   law_aliases |-> record.law_aliases,
   article_no |-> record.article_no,
   paragraph_no |-> record.paragraph_no,
   item_no |-> record.item_no,
   citation_key |-> RecordCitationKey(record.citation),
   heading |-> record.heading,
   content |-> record.content,
   content_plain |-> record.content_plain,
   year_enforced |-> record.year_enforced,
   path |-> record.path,
   url |-> record.url,
   line |-> 0,
   blocks |-> record.blocks]

\* the actions: id is the "_id" and source the "_source" of each
to_index_actions(records) ==
  [i \in 1..Len(records) |->
     [id |-> DocId(records[i]), source |-> SourceOf(records[i])]]

(***************************************************************************)
(* egov_importer.py.  An element is a record: tag (the local name, the     *)
(* namespace taken off as local_name does), attrib (the attributes the     *)
(* importer reads, each optional), text (the text before the first child), *)
(* tail (the text after the element) and kids (the child elements).        *)
(***************************************************************************)
NoAttrib == [Num |-> None, LawID |-> None, Id |-> None]

RECURSIVE Iter(_)
\* elem.iter(): the element and its descendants in document order
Iter(elem) == <<elem>> \o FlatMap(Iter, elem.kids)

RECURSIVE JoinedText(_)
\* "".join(elem.itertext())
JoinedText(elem) ==
  elem.text \o FlatMap(LAMBDA k : JoinedText(k) \o k.tail, elem.kids)

\* elem.findall('./{*}tag')
Children(elem, tag) == SelectSeq(elem.kids, LAMBDA k : k.tag = tag)

\* elem.findall('.//{*}tag'): the descendants, elem itself left out
FindAll(elem, tag) == SelectSeq(Tail(Iter(elem)), LAMBDA k : k.tag = tag)

\* a or b of two optional values
OrOpt(a, b) == IF a # None THEN a ELSE b

\* the joined text of the first of nodes named in names whose text is
\* not blank
FirstText(nodes, names) ==
  LET hits == SelectSeq(nodes, LAMBDA k : k.tag \in names
                                         /\ Strip(JoinedText(k)) # <<>>)
  IN IF hits = <<>> THEN None ELSE Some(JoinedText(hits[1]))

\* the children first, then the element and all its descendants
find_first_text(element, names) ==
  OrOpt(FirstText(element.kids, names), FirstText(Iter(element), names))

\* the text of every SentenceText or Sentence node, joined and normalized
extract_sentence_texts(elements) ==
  normalize_text(
    FlatMap(LAMBDA elem :
              FlatMap(LAMBDA node :
                        IF node.tag \in {"SentenceText", "Sentence"}
                        THEN node.text ELSE <<>>,
                      Iter(elem)),
            elements))

\* parse_number of a normalized, non-empty value
NumberOfText(value) ==
  IF IsDigitStr(FULLWIDTH_DIGITS(value)) THEN IntV(DecValue(value))
  ELSE StrV(value)

parse_number(value) ==
  IF value = None \/ normalize_text(OrText(value)) = <<>> THEN NoneV
  ELSE NumberOfText(normalize_text(Get(value)))

\* elem.attrib.get("Num") or find_first_text(elem, *names)
NumOrText(elem, names) ==
  IF TruthyStr(elem.attrib.Num) THEN elem.attrib.Num
  ELSE find_first_text(elem, names)

\* lines 71-76
ItemDict(item_no, sentences) ==
  IF sentences = <<>> THEN None
  ELSE Some([item_no |-> parse_number(item_no), text |-> sentences])

parse_item(item_elem) ==
  ItemDict(NumOrText(item_elem, {"ItemTitle", "ItemNum"}),
           extract_sentence_texts(<<item_elem>>))

\* the paragraph text is used only when there are no items
WithParagraphTextLost(items, paragraph_text) ==
  IF items = <<>> /\ paragraph_text # <<>>
  THEN <<[item_no |-> NoneV, text |-> paragraph_text]>>
  ELSE items

\* lines 89-93: the paragraph text, when there is any, goes first
WithParagraphText(items, paragraph_text) ==
  IF paragraph_text # <<>>
  THEN <<[item_no |-> NoneV, text |-> paragraph_text]>> \o items
  ELSE items

\* a paragraph without items is kept
ParagraphDictKeepEmpty(paragraph_no, items) ==
  Some([paragraph_no |-> parse_number(paragraph_no), items |-> items])

\* lines 95-101
ParagraphDict(paragraph_no, items) ==
  IF items = <<>> THEN None
  ELSE Some([paragraph_no |-> parse_number(paragraph_no), items |-> items])

parse_paragraph(paragraph_elem) ==
  ParagraphDict(
    NumOrText(paragraph_elem, {"ParagraphNum"}),
    WithParagraphText(
      FlatMap(parse_item, Children(paragraph_elem, "Item")),
      extract_sentence_texts(Children(paragraph_elem, "ParagraphSentence"))))

\* lines 114-124
ArticleDict(article_no, heading, paragraphs, article_text) ==
  IF paragraphs = <<>> /\ article_text = <<>> THEN None
  ELSE Some([article_no |-> normalize_text(OrText(article_no)),
             heading |-> normalize_text(OrText(heading)),
             paragraphs |->
               IF paragraphs = <<>>
               THEN <<[paragraph_no |-> NoneV,
                       items |-> <<[item_no |-> NoneV,
                                    text |-> article_text]>>]>>
               ELSE paragraphs])

parse_article(article_elem) ==
  ArticleDict(find_first_text(article_elem, {"ArticleNum"}),
              find_first_text(article_elem, {"ArticleTitle"}),
              FlatMap(parse_paragraph, Children(article_elem, "Paragraph")),
              extract_sentence_texts(<<article_elem>>))

\* the position counted from 0
PseudoArticleNoFromZero(paragraph_elem, idx) ==
  OrStr(normalize_text(OrText(NumOrText(paragraph_elem, {"ParagraphNum"}))),
        IntToStr(idx - 1))

\* lines 154-157: the number read for the paragraph, or str(idx)
PseudoArticleNo(paragraph_elem, idx) ==
  OrStr(normalize_text(OrText(NumOrText(paragraph_elem, {"ParagraphNum"}))),
        IntToStr(idx))

\* lines 151-164: nothing for a dropped paragraph
PseudoArticle(paragraph_elem, idx, paragraph) ==
  IF paragraph = None THEN <<>>
  ELSE <<[article_no |-> PseudoArticleNo(paragraph_elem, idx),
          heading |-> <<>>,
          paragraphs |-> <<Get(paragraph)>>]>>

\* lines 150-164: enumerate(elems, start=1)
PseudoArticles(elems) ==
  LET F[i \in 0..Len(elems)] ==
        IF i = 0 THEN <<>>
        ELSE F[i - 1] \o PseudoArticle(elems[i], i, parse_paragraph(elems[i]))
  IN F[Len(elems)]

\* root.findall('.//{*}LawBody//{*}Paragraph')
LawBodyParagraphs(root) ==
  FlatMap(LAMBDA lawbody : FindAll(lawbody, "Paragraph"),
          FindAll(root, "LawBody"))

\* lines 141-145
ParsedArticles(root) == FlatMap(parse_article, FindAll(root, "Article"))

\* lines 141-164: the parsed articles, or the pseudo-articles when none
LawArticles(articles, root) ==
  IF articles = <<>> THEN PseudoArticles(LawBodyParagraphs(root))
  ELSE articles

\* a or b of two optional strings, by truthiness
OrTruthy(a, b) == IF TruthyStr(a) THEN a ELSE b

\* lines 131-136
LawIdOf(root, stem) ==
  OrText(OrOpt(find_first_text(root, {"LawId", "LawID", "LawNum"}),
               OrTruthy(root.attrib.LawID,
                        OrTruthy(root.attrib.Id, Some(stem)))))

\* line 139
YearEnforced(enforce_date) ==
  IF TruthyStr(enforce_date) /\ Len(OrText(enforce_date)) >= 4
  THEN Some(SubSeq(Get(enforce_date), 1, 4)) ELSE None

\* lines 166-171: year_enforced is None when the key is left out
LawDict(law_id, law_name, enforce_date, articles) ==
  [law_id |-> normalize_text(law_id),
   law_name |-> normalize_text(OrText(OrOpt(law_name, Some(law_id)))),
   law_aliases |-> <<>>,
   articles |-> articles,
   year_enforced |-> YearEnforced(enforce_date)]

\* parse_law of the file named stem.xml whose root element is root
parse_law(root, stem) ==
  LawDict(LawIdOf(root, stem),
          find_first_text(root, {"LawTitle", "LawName"}),
          find_first_text(root, {"EnactDate", "AmendmentDate",
                                 "PromulgationDate"}),
          LawArticles(ParsedArticles(root), root))

(***************************************************************************)
(* open_search_client.py: _chunked, bulk, ensure_index.  The requests made *)
(* to the client are kept in a log; progress printing is left out.         *)
(***************************************************************************)
\* settings.OPENSEARCH_INDEX
INDEX == "laws"

RECURSIVE FillOver(_, _, _)
\* a batch closed only once it is longer than size
FillOver(len, left, size) ==
  IF left = 0 THEN len
  ELSE IF len + 1 > size THEN len + 1
  ELSE FillOver(len + 1, left - 1, size)

RECURSIVE Fill(_, _, _)
\* lines 117-124: the length of the batch _chunked yields next, when the
\* batch holds len actions and left actions remain: an action is appended
\* and the batch is yielded once len(batch) >= size or the input ends
Fill(len, left, size) ==
  IF left = 0 THEN len
  ELSE IF len + 1 >= size THEN len + 1
  ELSE Fill(len + 1, left - 1, size)

\* the next chunk of acts after the first pos actions
NextChunk(acts, pos, size) ==
  SubSeq(acts, pos + 1, pos + Fill(0, Len(acts) - pos, size))

\* lines 140-143: the meta line and the source of every action of a chunk
BulkBody(chunk) ==
  FlatMap(LAMBDA action :
            <<[index |-> [index |-> INDEX, id |-> action.id]],
              [doc |-> action.source]>>,
          chunk)

\* line 145: client.bulk(body=body, refresh=False)
BulkRequest(chunk, ok) ==
  [op |-> "bulk", body |-> BulkBody(chunk), refresh |-> FALSE, ok |-> ok]

\* line 151: client.indices.refresh(index=self.index)
RefreshRequest(ok) == [op |-> "refresh", index |-> INDEX, ok |-> ok]

(***************************************************************************)
(* Bounded inputs                                                          *)
(***************************************************************************)
RECURSIVE SeqsUpTo(_, _)
\* the sequences over alphabet A of length at most n
SeqsUpTo(A, n) ==
  IF n = 0 THEN {<<>>}
  ELSE LET S == SeqsUpTo(A, n - 1) IN S \cup {Append(x, c) : x \in S, c \in A}

MaxLawLen == 2
MaxKanjiLen == 3
MaxQueryLen == 2

LawAlphabet == {"min", "k10"}

Forms ==
  [pre : {<<>>, <<"ten">>},
   law : SeqsUpTo(LawAlphabet, MaxLawLen),
   ws : {<<>>, <<" ">>, <<"ids">>},
   dai : BOOLEAN,
   art : {<<"1">>, <<"0", "7">>, <<"fw2", "1">>, <<"0", "fw2">>, <<"k10">>,
          <<"k2", "k10", "k2">>, <<"1", "k10">>},
   gap : {<<>>, <<" ">>},
   para : {None, Some(<<"1">>), Some(<<"1", "0">>), Some(<<"fw2", "0">>),
           Some(<<"k2">>)},
   item : {None, Some(<<"2">>), Some(<<"fw1">>)}]

\* the text written from the pieces of f
Written(f) ==
  f.pre \o f.law \o f.ws \o (IF f.dai THEN <<"dai">> ELSE <<>>) \o f.art
  \o <<"jo">>
  \o (IF f.para = None THEN <<>> ELSE f.gap \o Get(f.para) \o <<"kou">>)
  \o (IF f.item = None THEN <<>> ELSE f.gap \o Get(f.item) \o <<"gou">>)

NoForm ==
  [pre |-> <<>>, law |-> <<>>, ws |-> <<>>, dai |-> FALSE, art |-> <<>>,
   gap |-> <<>>, para |-> None, item |-> None]

NoParams ==
  [q |-> <<>>, mode |-> "literal", filters |-> [law |-> None, year |-> None]]

QueryOff == params = NoParams /\ body = QueryRaised("none") /\ qpc = "off"

CitOff == form = NoForm /\ text = <<>> /\ citation = NoCitation /\ cpc = "off"
KanjiOff ==
  /\ kin = [src |-> "raw", n |-> 0, value |-> <<>>, one |-> FALSE, z |-> "k0"]
  /\ kout = None
  /\ kpc = "off"

MarkOff == snippet = <<>> /\ hquery = <<>> /\ marked = <<>> /\ mpc = "off"

NoSource ==
  [law_name |-> None, article_no |-> None, paragraph_no |-> None,
   item_no |-> None, path |-> None, url |-> None, content |-> <<>>,
   line |-> 0, blocks |-> <<>>]

NoHit == [id |-> <<>>, source |-> NoSource, highlight |-> <<>>]

HitOff ==
  hit = NoHit /\ hitquery = <<>> /\ converted = NoResult /\ hpc = "off"

FlatOff == corpus = <<>> /\ listing = <<>> /\ runs = <<>> /\ fpc = "off"

NoElem ==
  [tag |-> "", attrib |-> NoAttrib, text |-> <<>>, tail |-> <<>>, kids |-> <<>>]

NoLaw == LawDict(<<>>, None, None, <<>>)

XmlOff ==
  /\ xform = <<>>
  /\ xml = [root |-> NoElem, stem |-> <<>>]
  /\ law = NoLaw
  /\ xpc = "off"

BulkOff ==
  /\ actions = <<>>
  /\ chunk_size = 0
  /\ refresh_at_end = FALSE
  /\ sent = 0
  /\ log = <<>>
  /\ bpc = "off"

IdxOff == exists = FALSE /\ epc = <<>> /\ calls = <<>> /\ creates = <<>>

(***************************************************************************)
(* The citation parser as a state machine: one call of parse_citation      *)
(***************************************************************************)
CitInit ==
  /\ form \in Forms
  /\ text = Written(form)
  /\ citation = NoCitation
  /\ cpc = "input"

ParseCitation ==
  /\ cpc = "input"
  /\ citation' = parse_citation(text)
  /\ cpc' = "parsed"
  /\ UNCHANGED <<form, text, kanjiVars, queryVars, markVars, hitVars, flatVars, xmlVars, bulkVars, idxVars>>

InitCitation ==
  CitInit /\ KanjiOff /\ QueryOff /\ MarkOff /\ HitOff /\ FlatOff
  /\ XmlOff /\ BulkOff /\ IdxOff

SpecCitation == InitCitation /\ [][ParseCitation]_vars

\* the digit a digit character stands for
DigitOf(c) ==
  CHOOSE d \in 0..9 : c = AsciiDigitTok[d + 1] \/ c = FullwidthDigitTok[d + 1]

RECURSIVE Pow10(_)
Pow10(n) == IF n = 0 THEN 1 ELSE 10 * Pow10(n - 1)

RECURSIVE PlaceValue(_)
\* the integer a string of digit characters denotes
PlaceValue(s) ==
  IF s = <<>> THEN 0
  ELSE DigitOf(Head(s)) * Pow10(Len(s) - 1) + PlaceValue(Tail(s))

\* a string of digit characters written in ASCII
InAscii(s) == [i \in 1..Len(s) |-> AsciiDigitTok[DigitOf(s[i]) + 1]]

\* characters a law name is written with: word characters that are neither
\* digits, kanji numerals or units, nor the markers "dai" and "jo"
NameChars ==
  WordChars \ (AsciiDigits \cup FullwidthDigitSet \cup DOMAIN KANJI_DIGITS
               \cup DOMAIN KANJI_UNITS \cup {"dai", "jo"})

\* a text of the form: law name, optional whitespace, optional "dai",
\* digits, "jo", optionally digits "kou", optionally digits "gou"
C1Form(f) ==
  /\ f.pre = <<>>
  /\ f.law # <<>>
  /\ \A i \in 1..Len(f.law) : f.law[i] \in NameChars
  /\ IsDigitStr(f.art)
  /\ f.gap = <<>>
  /\ f.para # None => IsDigitStr(Get(f.para))
  /\ f.item # None => IsDigitStr(Get(f.item))

\* C1: for a text "L [ws] [dai] A jo [P kou] [I gou]" with L a law name free
\* of numerals and markers and A, P, I digit strings, parse_citation returns
\* law_name = L, article_no = A in ASCII, paragraph_no = P and item_no = I
\* as integers, each absent when its part is absent.
C1_ParseCitationFields ==
  (cpc = "parsed" /\ C1Form(form)) =>
    /\ citation.law_name = Some(form.law)
    /\ citation.article_no = Some(InAscii(form.art))
    /\ citation.paragraph_no =
         (IF form.para = None THEN None ELSE Some(PlaceValue(Get(form.para))))
    /\ citation.item_no =
         (IF form.item = None THEN None ELSE Some(PlaceValue(Get(form.item))))

C1_Witness ==
  /\ cpc = "parsed"
  /\ C1Form(form)
  /\ form.dai
  /\ form.ws # <<>>
  /\ form.art = <<"fw2", "1">>
  /\ form.para = Some(<<"fw2", "0">>)
  /\ form.item # None
  /\ citation.article_no = Some(<<"2", "1">>)
  /\ citation.paragraph_no = Some(20)

\* a non-empty string of ASCII digits
AsciiDecimal(s) == s # <<>> /\ \A i \in 1..Len(s) : s[i] \in AsciiDigits

\* a decimal integer written without leading zeros
NoLeadingZeros(s) == AsciiDecimal(s) /\ (Len(s) > 1 => s[1] # "0")

\* a text of the form of a citation key: law name, one space, ASCII digits,
\* "jo", optionally one space and P "kou", optionally one space and I "gou"
C11Form(f) ==
  /\ f.pre = <<>>
  /\ f.law # <<>>
  /\ \A i \in 1..Len(f.law) : f.law[i] \in NameChars
  /\ f.ws = <<" ">>
  /\ ~f.dai
  /\ AsciiDecimal(f.art)
  /\ f.gap = <<" ">>
  /\ f.para # None => NoLeadingZeros(Get(f.para))
  /\ f.item # None => NoLeadingZeros(Get(f.item))

C12Form(f) ==
  /\ f.pre = <<>>
  /\ f.law = <<>>
  /\ f.ws = <<>>
  /\ f.gap = <<>>
  /\ IsDigitStr(f.art) \/ kanji_to_int(f.art) # None

\* C12: for a text that is only an optional "dai", an article numeral and
\* "jo" (optionally P "kou", I "gou"), parse_citation returns no law name and
\* the value of the whole numeral as article_no, and build_query's filter
\* list has no law_name clause.
C12_BareArticleHasNoLawName ==
  (cpc = "parsed" /\ C12Form(form)) =>
    /\ citation.law_name = None
    /\ citation.article_no = Some(ArticleNo(form.art))
    /\ \A i \in DOMAIN FilterClauses(None, None, citation) :
         FilterClauses(None, None, citation)[i].field # "law_name"

(***************************************************************************)
(* The kanji decoder as a state machine: one call of _kanji_to_int         *)
(***************************************************************************)
KanjiDomain == 0..9999

\* one decimal place of the standard spelling: digit d in front of unit u;
\* the digit 1 is written only when one is TRUE
SpellPlace(d, u, one) ==
  IF d = 0 THEN <<>>
  ELSE IF d = 1 /\ ~one THEN <<u>>
  ELSE <<KanjiDigitTok[d + 1], u>>

\* the standard kanji spelling of n, zero written with the character z
Spell(n, one, z) ==
  IF n = 0 THEN <<z>>
  ELSE SpellPlace(n \div 1000, "k1000", one)
       \o SpellPlace((n \div 100) % 10, "k100", one)
       \o SpellPlace((n \div 10) % 10, "k10", one)
       \o (IF n % 10 = 0 THEN <<>> ELSE <<KanjiDigitTok[(n % 10) + 1]>>)

KanjiAlphabet == {"k2", "k10", "rei", "1", "a"}

KanjiInit ==
  /\ kin \in [src : {"spelled"}, n : KanjiDomain \ {0},
              value : {<<>>}, one : BOOLEAN, z : {"k0"}]
            \cup [src : {"spelled"}, n : {0}, value : {<<>>},
                  one : {FALSE}, z : {"k0", "rei"}]
            \cup [src : {"raw"}, n : {0},
                  value : SeqsUpTo(KanjiAlphabet, MaxKanjiLen),
                  one : {FALSE}, z : {"k0"}]
  /\ kout = None
  /\ kpc = "input"

\* the string handed to the decoder
KanjiInput(k) == IF k.src = "spelled" THEN Spell(k.n, k.one, k.z) ELSE k.value

KanjiToInt ==
  /\ kpc = "input"
  /\ kout' = kanji_to_int(KanjiInput(kin))
  /\ kpc' = "done"
  /\ UNCHANGED <<kin, citVars, queryVars, markVars, hitVars, flatVars, xmlVars, bulkVars, idxVars>>

InitKanji ==
  KanjiInit /\ CitOff /\ QueryOff /\ MarkOff /\ HitOff /\ FlatOff
  /\ XmlOff /\ BulkOff /\ IdxOff

SpecKanji == InitKanji /\ [][KanjiToInt]_vars

\* C10: kanji_to_int returns n for the standard kanji spelling of every n in
\* 0..9999 (a unit with no digit in front counting once), and no value for
\* the empty string or a string with a character that is neither a kanji
\* digit nor a unit.
C10_KanjiToInt ==
  kpc = "done" =>
    /\ kin.src = "spelled" => kout = Some(kin.n)
    /\ (kin.src = "raw"
        /\ (kin.value = <<>>
            \/ \E i \in 1..Len(kin.value) :
                 kin.value[i] \notin DOMAIN KANJI_DIGITS \cup DOMAIN KANJI_UNITS))
       => kout = None

C10_Witness ==
  /\ kpc = "done"
  /\ kin.src = "spelled"
  /\ kin.n = 1110
  /\ ~kin.one
  /\ kout = Some(1110)

(***************************************************************************)
(* The query builder as a state machine: one call of build_query           *)
(***************************************************************************)
QueryForms ==
  [pre : {<<>>, <<"(">>, <<"big">>},
   law : {<<>>, <<"min">>},
   ws : {<<>>, <<" ">>},
   dai : {FALSE},
   art : {<<"1">>, <<"k10">>},
   gap : {<<>>},
   para : {None, Some(<<"0">>)},
   item : {None, Some(<<"2">>)}]

RegexAlphabet == {"a", "(", ")", "*", "big"}

QueryTexts ==
  {Written(f) : f \in QueryForms} \cup SeqsUpTo(RegexAlphabet, MaxQueryLen)

QueryInit ==
  /\ params \in [q : QueryTexts, mode : {"literal", "regex"},
                 filters : [law : {None, Some(<<>>), Some(<<"hou">>)},
                            year : {None, Some(<<"2", "0">>)}]]
  /\ body = QueryRaised("none")
  /\ qpc = "input"

BuildQuery ==
  /\ qpc = "input"
  /\ body' = build_query(params)
  /\ qpc' = "built"
  /\ UNCHANGED <<params, citVars, kanjiVars, markVars, hitVars, flatVars, xmlVars, bulkVars, idxVars>>

InitQuery ==
  QueryInit /\ CitOff /\ KanjiOff /\ MarkOff /\ HitOff /\ FlatOff
  /\ XmlOff /\ BulkOff /\ IdxOff

SpecQuery == InitQuery /\ [][BuildQuery]_vars

\* C3: in regex mode, when the search text does not compile, build_query
\* raises nothing and its single must clause is the clause literal mode
\* builds for the same text (content, the text, whitespace analyzer, slop 0).
C3_RegexFallbackIsLiteralClause ==
  (qpc = "built" /\ params.mode = "regex" /\ ReCompile(params.q) # "ok") =>
    /\ body.raised = "none"
    /\ body.must = <<PhraseClause(params.q, Some(0))>>

\* C4: the query has exactly one must clause, on content, and it has a
\* should list together with minimum_should_match = 1 exactly when a
\* boosting clause was generated; with none it has neither key.
C4_MustAndMinimumShouldMatch ==
  (qpc = "built" /\ body.raised = "none") =>
    LET boosts == ShouldClauses(params.filters.law, parse_citation(params.q),
                                citation_key(parse_citation(params.q)))
    IN /\ Len(body.must) = 1
       /\ body.must[1].field = "content"
       /\ boosts # <<>> =>
            body.should = Some(boosts) /\ body.minimum_should_match = Some(1)
       /\ boosts = <<>> =>
            body.should = None /\ body.minimum_should_match = None

C4_Witness ==
  /\ qpc = "built"
  /\ body.raised = "none"
  /\ params.filters.law = None
  /\ body.should # None
  /\ Len(Get(body.should)) = 2
  /\ body.minimum_should_match = Some(1)
  /\ Len(body.must) = 1

\* the number of clauses of a list on a field, and of copies of a clause
OnField(clauses, field) ==
  Cardinality({i \in DOMAIN clauses : clauses[i].field = field})
Copies(clauses, clause) ==
  Cardinality({i \in DOMAIN clauses : clauses[i] = clause})

\* 1 for a string that is present (given and not empty), else 0
One(o) == IF TruthyStr(o) THEN 1 ELSE 0

\* the filter list has, for a citation c and the request filters, one term
\* clause per present field and no other clause
FilterAsClaimed(filter, c, law_filter, year_filter) ==
  /\ \A i \in DOMAIN filter :
       /\ filter[i].kind = "term"
       /\ filter[i].field \in {"law_name", "article_no", "paragraph_no",
                               "item_no", "year_enforced"}
  /\ OnField(filter, "law_name") = One(c.law_name) + One(law_filter)
  /\ TruthyStr(c.law_name) =>
       Copies(filter, TermClause("law_name", StrV(Get(c.law_name)))) >= 1
  /\ TruthyStr(law_filter) =>
       Copies(filter, TermClause("law_name", StrV(Get(law_filter)))) >= 1
  /\ OnField(filter, "article_no") = One(c.article_no)
  /\ TruthyStr(c.article_no) =>
       Copies(filter, TermClause("article_no", StrV(Get(c.article_no)))) = 1
  /\ OnField(filter, "paragraph_no") = (IF c.paragraph_no # None THEN 1 ELSE 0)
  /\ c.paragraph_no # None =>
       Copies(filter, TermClause("paragraph_no", IntV(Get(c.paragraph_no)))) = 1
  /\ OnField(filter, "item_no") = (IF c.item_no # None THEN 1 ELSE 0)
  /\ c.item_no # None =>
       Copies(filter, TermClause("item_no", IntV(Get(c.item_no)))) = 1
  /\ OnField(filter, "year_enforced") = One(year_filter)
  /\ TruthyStr(year_filter) =>
       Copies(filter, TermClause("year_enforced", StrV(Get(year_filter)))) = 1

\* the should list has one law_name.prefix clause per present law-name
\* source, one citation_key.prefix clause when there is a key, no other
ShouldAsClaimed(should, c, law_filter, key) ==
  /\ \A i \in DOMAIN should :
       /\ should[i].kind = "match_phrase_prefix"
       /\ should[i].field \in {"law_name.prefix", "citation_key.prefix"}
  /\ OnField(should, "law_name.prefix") = One(c.law_name) + One(law_filter)
  /\ TruthyStr(c.law_name) =>
       Copies(should, PrefixClause("law_name.prefix", Get(c.law_name))) >= 1
  /\ TruthyStr(law_filter) =>
       Copies(should, PrefixClause("law_name.prefix", Get(law_filter))) >= 1
  /\ OnField(should, "citation_key.prefix") = One(key)
  /\ TruthyStr(key) =>
       Copies(should, PrefixClause("citation_key.prefix", Get(key))) = 1

\* C18: the filter list of the query holds exactly one term clause per
\* present citation field (paragraph or item 0 counts as present), one on
\* year_enforced iff filters.year is given and one on law_name iff
\* filters.law is given; the should list holds one law_name.prefix clause
\* per present law-name source and one citation_key.prefix clause iff a key
\* is derivable; there are no other clauses.
C18_CitationFusion ==
  (qpc = "built" /\ body.raised = "none") =>
    /\ FilterAsClaimed(body.filter, parse_citation(params.q),
                       params.filters.law, params.filters.year)
    /\ ShouldAsClaimed(OrSeq(body.should), parse_citation(params.q),
                       params.filters.law,
                       citation_key(parse_citation(params.q)))

C18_Witness ==
  /\ qpc = "built"
  /\ body.raised = "none"
  /\ params.filters.law = Some(<<"hou">>)
  /\ params.filters.year = Some(<<"2", "0">>)
  /\ Len(body.filter) = 6
  /\ Copies(body.filter, TermClause("law_name", StrV(<<"min">>))) = 1
  /\ Copies(body.filter, TermClause("paragraph_no", IntV(0))) = 1
  /\ Copies(body.filter, TermClause("item_no", IntV(2))) = 1
  /\ Len(OrSeq(body.should)) = 3

(***************************************************************************)
(* Highlight repair as a state machine: one call of _ensure_highlight      *)
(***************************************************************************)
MaxSnippetLen == 5
MaxMarkQueryLen == 2

SnippetAlphabet == {"b", "c"}

MarkInit ==
  /\ snippet \in SeqsUpTo(SnippetAlphabet \cup {OPEN, CLOSE}, MaxSnippetLen)
  /\ hquery \in SeqsUpTo(SnippetAlphabet, MaxMarkQueryLen)
  /\ marked = <<>>
  /\ mpc = "input"

EnsureHighlight ==
  /\ mpc = "input"
  /\ marked' = ensure_highlight(snippet, hquery)
  /\ mpc' = "done"
  /\ UNCHANGED <<snippet, hquery, citVars, kanjiVars, queryVars, hitVars,
               flatVars, xmlVars, bulkVars, idxVars>>

InitHighlight ==
  MarkInit /\ CitOff /\ KanjiOff /\ QueryOff /\ HitOff /\ FlatOff
  /\ XmlOff /\ BulkOff /\ IdxOff

SpecHighlight == InitHighlight /\ [][EnsureHighlight]_vars

\* x is one marker pair wrapping a fragment that holds no marker
WholeWrap(x) ==
  /\ Len(x) >= 2
  /\ x[1] = OPEN
  /\ x[Len(x)] = CLOSE
  /\ \A i \in 2..(Len(x) - 1) : x[i] \notin {OPEN, CLOSE}

\* x with its markers taken out
Unmarked(x) == SelectSeq(x, LAMBDA c : c \notin {OPEN, CLOSE})

\* C7: for a non-empty query q and a snippet that is one marker pair around a
\* fragment T, the result is T with markers added; every marker pair of the
\* result encloses exactly q; and no occurrence of q is left outside a pair
\* (occurrences are taken left to right without overlap).
C7_RepairWrapsEveryOccurrence ==
  (mpc = "done" /\ hquery # <<>> /\ WholeWrap(snippet)) =>
    LET n == Len(hquery)
    IN /\ Unmarked(marked) = SubSeq(snippet, 2, Len(snippet) - 1)
       /\ \A i \in 1..Len(marked) :
            /\ marked[i] = OPEN =>
                 /\ i + n + 1 <= Len(marked)
                 /\ SubSeq(marked, i + 1, i + n) = hquery
                 /\ marked[i + n + 1] = CLOSE
            /\ marked[i] = CLOSE => (i > n + 1 /\ marked[i - n - 1] = OPEN)
            /\ (i + n - 1 <= Len(marked)
                /\ SubSeq(marked, i, i + n - 1) = hquery)
               => (i > 1 /\ marked[i - 1] = OPEN)

C7_Witness ==
  /\ mpc = "done"
  /\ snippet = <<OPEN, "b", "c", "b", CLOSE>>
  /\ hquery = <<"b">>
  /\ marked = <<OPEN, "b", CLOSE, "c", OPEN, "b", CLOSE>>

(***************************************************************************)
(* The hit enricher as a state machine: one call of _convert_hit           *)
(***************************************************************************)
\* the pieces a url is written from: "/l/1", then "/a/" and the article
\* segment when art is present, then "/" and the tail when tail is present
UrlForms ==
  [art : {None, Some(<<"2", "3">>), Some(<<"k2">>)},
   tail : {None, Some(<<"4">>), Some(<<"fw1", "0">>), Some(<<"x">>)}]

UrlOf(u) ==
  <<"/", "l", "/", "1">>
  \o (IF u.art = None THEN <<>> ELSE <<"/", "a", "/">> \o Get(u.art))
  \o (IF u.tail = None THEN <<>> ELSE <<"/">> \o Get(u.tail))

Sources ==
  [law_name : {None, Some(<<"min">>)},
   article_no : {None, Some(<<>>), Some(<<"5">>)},
   paragraph_no : {None, Some(7)},
   item_no : {None, Some(1)},
   path : {None, Some(<<"min", "/", "9">>), Some(<<"min">>)},
   url : {None} \cup {Some(UrlOf(u)) : u \in UrlForms},
   content : {<<"b", "c">>},
   line : {0},
   blocks : {<<>>}]

HitInit ==
  /\ hit \in [id : {<<"1">>}, source : Sources,
              highlight : {<<>>, <<OPEN, "b", "c", CLOSE>>}]
  /\ hitquery \in {<<>>, <<"b">>}
  /\ converted = NoResult
  /\ hpc = "input"

ConvertHit ==
  /\ hpc = "input"
  /\ converted' = convert_hit(hit, hitquery)
  /\ hpc' = "done"
  /\ UNCHANGED <<hit, hitquery, citVars, kanjiVars, queryVars, markVars,
               flatVars, xmlVars, bulkVars, idxVars>>

InitHit ==
  HitInit /\ CitOff /\ KanjiOff /\ QueryOff /\ MarkOff /\ FlatOff
  /\ XmlOff /\ BulkOff /\ IdxOff

SpecHit == InitHit /\ [][ConvertHit]_vars

\* the url of the hit is UrlOf(u)
HitUrlIs(u) == hit.source.url = Some(UrlOf(u))

\* C2: for a hit whose stored article_no is empty, _convert_hit returns a
\* result record; when the url holds /a/{article}/{digits} its article_no is
\* {article} and, the stored paragraph_no being absent, its paragraph_no is
\* the integer {digits}; when the url has no /a/ segment its article_no is
\* the second "/"-separated segment of path.
C2_ConvertHitBackfill ==
  (hpc = "done" /\ ~TruthyStr(hit.source.article_no)) =>
    \A u \in UrlForms :
      /\ (HitUrlIs(u) /\ u.art # None /\ u.tail # None
          /\ IsDigitStr(Get(u.tail))) =>
           /\ converted.raised = "none"
           /\ converted.article_no = Get(u.art)
           /\ hit.source.paragraph_no = None =>
                converted.paragraph_no = Some(PlaceValue(Get(u.tail)))
      /\ (HitUrlIs(u) /\ u.art = None /\ hit.source.path # None) =>
           /\ converted.raised = "none"
           /\ converted.article_no
                = (IF Get(hit.source.path) = <<"min", "/", "9">>
                   THEN <<"9">> ELSE <<>>)

(***************************************************************************)
(* The flattener as a state machine: each run lists the input directory,   *)
(* in whatever order the file system gives, and runs collect_records and   *)
(* to_index_actions                                                        *)
(***************************************************************************)
MaxFiles == 2
MaxRuns == 2

ItemA == [item_no |-> NoneV, text |-> Some(<<"ids", "min", " ", " ", "hou">>)]
ItemB == [item_no |-> IntV(1), text |-> Some(<<"hou">>)]
ItemC == [item_no |-> IntV(2), text |-> Some(<<" ", "ids">>)]

Paragraphs ==
  [paragraph_no : {NoneV, IntV(0), IntV(2)},
   items : {None, Some(<<ItemA, ItemB, ItemC>>)},
   text : {Some(<<"min">>)}]

Articles ==
  [article_no : {StrV(<<"1">>), IntV(2)},
   heading : {Some(<<" ", "hou">>)},
   paragraphs : {None} \cup {Some(<<p>>) : p \in Paragraphs},
   text : {Some(<<"hou", "ids">>)}]

Docs ==
  [law_id : {<<"l">>},
   law_name : {<<"min">>},
   law_aliases : {None},
   year_enforced : {Some(<<"2", "0">>)},
   articles : {Some(<<a>>) : a \in Articles}]

\* the orders a directory listing of the files S can come in
Listings(S) ==
  {p \in [1..Cardinality(S) -> S] : {p[i] : i \in 1..Cardinality(S)} = S}

FlatInit ==
  /\ corpus \in UNION {[S -> Docs] : S \in SUBSET (1..MaxFiles)}
  /\ listing = <<>>
  /\ runs = <<>>
  /\ fpc = "on"

\* one run over the unchanged corpus
Flatten ==
  /\ fpc = "on"
  /\ Len(runs) < MaxRuns
  /\ \E names \in Listings(DOMAIN corpus) :
       /\ listing' = names
       /\ runs' = Append(runs, to_index_actions(
                                 collect_records(load_documents(corpus, names))))
  /\ UNCHANGED <<corpus, fpc, citVars, kanjiVars, queryVars, markVars, hitVars,
               xmlVars, bulkVars, idxVars>>

InitFlatten ==
  FlatInit /\ CitOff /\ KanjiOff /\ QueryOff /\ MarkOff /\ HitOff
  /\ XmlOff /\ BulkOff /\ IdxOff

SpecFlatten == InitFlatten /\ [][Flatten]_vars

\* f"{v or 0}" of a number-or-null field of a _source
OrZeroText(v) ==
  IF v = NoneV \/ v = IntV(0) \/ v = StrV(<<>>) THEN <<"0">> ELSE PyStr(v)

\* C5: every two runs over the unchanged corpus give the same sequence of
\* (document id, source) pairs, and each document id is
\* law_id-article_no-(paragraph_no or 0)-(item_no or 0) of its own source.
C5_FlattenDeterministic ==
  /\ \A i, j \in 1..Len(runs) : runs[i] = runs[j]
  /\ \A i \in 1..Len(runs) : \A k \in 1..Len(runs[i]) :
       LET a == runs[i][k]
       IN a.id = a.source.law_id \o <<"-">> \o a.source.article_no \o <<"-">>
                 \o OrZeroText(a.source.paragraph_no) \o <<"-">>
                 \o OrZeroText(a.source.item_no)

C5_Witness ==
  /\ Len(runs) = 2
  /\ DOMAIN corpus = {1, 2}
  /\ corpus[1] # corpus[2]
  /\ listing = <<2, 1>>
  /\ Len(runs[2]) = 4
  /\ runs[2][1].id = <<"l", "-", "1", "-", "2", "-", "0">>
  /\ runs[2][2].id = <<"l", "-", "1", "-", "2", "-", "1">>
  /\ runs[2][3].id = <<"l", "-", "2", "-", "0", "-", "0">>
  /\ runs[1] = runs[2]

\* the enricher's reading of the url of a source agrees with the source
UrlAgrees(source) ==
  /\ extract_article_from_url(source.url) = source.article_no
  /\ \/ extract_paragraph_from_url(source.url) = None
     \/ /\ source.paragraph_no.t = "int"
        /\ extract_paragraph_from_url(source.url) = Some(source.paragraph_no.v)

\* C14: for every record the flattener emits with a non-empty article
\* number, the article extracted from its url is its article_no, and the
\* paragraph extracted from its url is absent or its own paragraph_no.
C14_UrlConventionsAgree ==
  \A r \in 1..Len(runs) : \A k \in 1..Len(runs[r]) :
    runs[r][k].source.article_no # <<>> => UrlAgrees(runs[r][k].source)

(***************************************************************************)
(* The importer as a state machine: one call of parse_law on a document    *)
(* written from pieces                                                     *)
(***************************************************************************)
MaxParagraphs == 2

\* an element with a Num attribute (or none), text and children; the text
\* after it is the blank between elements
Elem(tag, num, t, kids) ==
  [tag |-> tag, attrib |-> [NoAttrib EXCEPT !.Num = num], text |-> t,
   tail |-> <<" ">>, kids |-> kids]

\* a leaf element holding text
Leaf(tag, t) == Elem(tag, None, t, <<>>)

\* <hold><Sentence>t</Sentence></hold>
SentenceIn(hold, t) == Elem(hold, None, <<" ">>, <<Leaf("Sentence", t)>>)

\* an item numbered by its Num attribute
PlainItem ==
  Elem("Item", Some(<<"fw1">>), <<>>, <<SentenceIn("ItemSentence", <<"hou">>)>>)

\* an item numbered by its ItemTitle that holds a table with a paragraph
NestingItem ==
  Elem("Item", None, <<>>,
       <<Leaf("ItemTitle", <<"k1">>),
         SentenceIn("ItemSentence", <<"hou", " ">>),
         Elem("TableStruct", None, <<>>,
              <<Elem("Paragraph", None, <<>>,
                     <<SentenceIn("ParagraphSentence", <<"min">>)>>)>>)>>)

ItemsWritten(kind) ==
  IF kind = "plain" THEN <<PlainItem>>
  ELSE IF kind = "nesting" THEN <<NestingItem>>
  ELSE <<>>

\* the pieces of a Paragraph element: its Num attribute, its ParagraphNum
\* child, the text of its sentence and its items
Numberings ==
  {[num |-> None, pnum |-> None],
   [num |-> Some(<<"fw2">>), pnum |-> None],
   [num |-> Some(<<" ">>), pnum |-> Some(<<"k3", "ids">>)],
   [num |-> None, pnum |-> Some(<<"k3", "ids">>)]}

ParagraphForms ==
  [number : Numberings,
   sentence : {<<"min", "ids", " ", "hou">>, <<"ids">>},
   items : {"none", "plain", "nesting"}]

WrittenParagraph(f) ==
  Elem("Paragraph", f.number.num, <<" ">>,
       (IF f.number.pnum = None THEN <<>>
        ELSE <<Leaf("ParagraphNum", Get(f.number.pnum))>>)
       \o <<SentenceIn("ParagraphSentence", f.sentence)>>
       \o ItemsWritten(f.items))

\* an Article with a number and nothing to index: parse_article drops it
EmptyArticle ==
  Elem("Article", None, <<>>,
       <<Leaf("ArticleNum", <<"k1">>), Leaf("ArticleCaption", <<"min">>)>>)

\* an Article with one paragraph
FullArticle ==
  Elem("Article", Some(<<"1">>), <<>>,
       <<Leaf("ArticleTitle", <<"dai", "k1", "jo">>),
         Elem("Paragraph", Some(<<"1">>), <<>>,
              <<SentenceIn("ParagraphSentence", <<"hou">>)>>)>>)

\* an Article with an ArticleNum and a title that holds the paragraphs
NumberedArticle(paragraphs) ==
  Elem("Article", Some(<<"1">>), <<>>,
       <<Leaf("ArticleNum", <<"k1">>), Leaf("ArticleTitle", <<"dai", "k1", "jo">>)>>
       \o paragraphs)

\* Article 1 of a chapter
ChapterArticle ==
  Elem("Chapter", Some(<<"1">>), <<>>,
       <<NumberedArticle(<<Elem("Paragraph", Some(<<"1">>), <<>>,
                               <<SentenceIn("ParagraphSentence", <<"min">>)>>)>>)>>)

\* Article 1 of the supplementary provisions
SupplProvision ==
  Elem("SupplProvision", None, <<>>,
       <<NumberedArticle(<<Elem("Paragraph", Some(<<"1">>), <<>>,
                               <<SentenceIn("ParagraphSentence", <<"hou">>)>>)>>)>>)

\* an item without text: parse_item drops it
BlankItem ==
  Elem("Item", Some(<<"fw2">>), <<>>, <<SentenceIn("ItemSentence", <<"ids">>)>>)

\* a paragraph with a sentence before a list of three items
ListedParagraph ==
  Elem("Paragraph", Some(<<"1">>), <<>>,
       <<SentenceIn("ParagraphSentence", <<"min", "ids">>),
         PlainItem, BlankItem, NestingItem>>)

\* the Paragraph elements written from the pieces ps
WrittenParagraphs(ps) == [i \in 1..Len(ps) |-> WrittenParagraph(ps[i])]

\* the children of MainProvision: for "holding" the paragraphs are those of
\* one Article, for the other kinds they follow the Article, if any
MainWritten(kind, paragraphs) ==
  IF kind = "empty" THEN <<EmptyArticle>> \o paragraphs
  ELSE IF kind = "full" THEN <<FullArticle>> \o paragraphs
  ELSE IF kind = "holding" THEN <<NumberedArticle(paragraphs)>>
  ELSE IF kind = "deep" THEN <<ChapterArticle>> \o paragraphs
  ELSE IF kind = "listed" THEN <<NumberedArticle(<<ListedParagraph>>)>> \o paragraphs
  ELSE paragraphs

\* the paragraphs numbered by their Num attribute or not at all
AttributeForms == {f \in ParagraphForms : f.number.pnum = None}

XmlForms ==
  [articles : {"none"}, paragraphs : SeqsUpTo(ParagraphForms, MaxParagraphs)]
  \cup [articles : {"empty", "holding"},
        paragraphs : SeqsUpTo(AttributeForms, MaxParagraphs)]
  \cup [articles : {"full"}, paragraphs : SeqsUpTo(ParagraphForms, 1)]
  \cup [articles : {"deep", "listed"}, paragraphs : {<<>>}]

\* <Law><LawNum/><LawBody><LawTitle/><MainProvision>...</MainProvision>
\* </LawBody></Law>, for "deep" with a SupplProvision after MainProvision
WrittenLaw(f) ==
  Elem("Law", None, <<" ">>,
       <<Leaf("LawNum", <<"1">>),
         Elem("LawBody", None, <<" ">>,
              <<Leaf("LawTitle", <<"min", "hou">>),
                Elem("MainProvision", None, <<" ">>,
                     MainWritten(f.articles, WrittenParagraphs(f.paragraphs)))>>
              \o (IF f.articles = "deep" THEN <<SupplProvision>> ELSE <<>>))>>)

XmlInit ==
  /\ xform \in XmlForms
  /\ xml = [root |-> WrittenLaw(xform), stem |-> <<"x">>]
  /\ law = NoLaw
  /\ xpc = "input"

ParseLaw ==
  /\ xpc = "input"
  /\ law' = parse_law(xml.root, xml.stem)
  /\ xpc' = "done"
  /\ UNCHANGED <<xform, xml, citVars, kanjiVars, queryVars, markVars, hitVars,
                 flatVars, bulkVars, idxVars>>

InitImport ==
  XmlInit /\ CitOff /\ KanjiOff /\ QueryOff /\ MarkOff /\ HitOff /\ FlatOff
  /\ BulkOff /\ IdxOff

SpecImport == InitImport /\ [][ParseLaw]_vars

\* the pseudo-article fallback applies: no article was parsed
FallbackApplies == ParsedArticles(xml.root) = <<>>

\* the number read for a paragraph element, as text
OwnNumber(paragraph_elem) ==
  normalize_text(OrText(NumOrText(paragraph_elem, {"ParagraphNum"})))

\* the k-th smallest member of a set of numbers
Nth(S, k) == CHOOSE x \in S : Cardinality({y \in S : y < x}) = k - 1

\* the pseudo-articles of the Paragraph elements ps that are not dropped,
\* in document order, where Pos(j, k) is the position that numbers the j-th
\* kept paragraph, the k-th of ps, when it has no number of its own
ExpectedPseudoArticles(ps, Pos(_, _)) ==
  LET kept == {k \in 1..Len(ps) : parse_paragraph(ps[k]) # None}
  IN [j \in 1..Cardinality(kept) |->
        [article_no |-> IF OwnNumber(ps[Nth(kept, j)]) # <<>>
                        THEN OwnNumber(ps[Nth(kept, j)])
                        ELSE IntToStr(Pos(j, Nth(kept, j))),
         heading |-> <<>>,
         paragraphs |-> <<Get(parse_paragraph(ps[Nth(kept, j)]))>>]]

\* C6 as claimed: when the fallback applies, the articles are one
\* pseudo-article per Paragraph element under the law body that is not
\* dropped, in document order, each with an empty heading, that one parsed
\* paragraph, and as article number the paragraph's own number or else its
\* 1-based position among the paragraphs that are not dropped.
C6_PositionAmongKept ==
  (xpc = "done" /\ FallbackApplies) =>
    law.articles = ExpectedPseudoArticles(LawBodyParagraphs(xml.root),
                                          LAMBDA j, k : j)

\* C6 as amended: the same, the article number of a paragraph without a
\* number being its 1-based position among all the Paragraph elements under
\* the law body, the dropped ones counted.
C6_PositionAmongAll ==
  (xpc = "done" /\ FallbackApplies) =>
    law.articles = ExpectedPseudoArticles(LawBodyParagraphs(xml.root),
                                          LAMBDA j, k : k)

C6_Witness ==
  /\ xpc = "done"
  /\ xform.articles = "empty"
  /\ Len(xform.paragraphs) = 2
  /\ xform.paragraphs[1].sentence = <<"ids">>
  /\ xform.paragraphs[1].items = "none"
  /\ xform.paragraphs[2].number = [num |-> None, pnum |-> None]
  /\ xform.paragraphs[2].items = "nesting"
  /\ Len(law.articles) = 2
  /\ law.articles[1].article_no = <<"2">>
  /\ law.articles[2].article_no = <<"3">>
  /\ Len(law.articles[1].paragraphs[1].items) = 2

\* C15: a document that contains an Article element yields no
\* pseudo-articles: its articles are the parsed Article elements, and none
\* when every Article is dropped.
C15_NoPseudoArticlesBesideArticles ==
  (xpc = "done" /\ FindAll(xml.root, "Article") # <<>>) =>
    law.articles = ParsedArticles(xml.root)

\* the Article elements of the document that hold sentence text
ArticlesWithText ==
  SelectSeq(FindAll(xml.root, "Article"),
            LAMBDA a : extract_sentence_texts(<<a>>) # <<>>)

\* C16: parse_law returns a Law record in which every article has a
\* paragraph, every paragraph an item and every item non-empty normalized
\* text; what is empty is dropped: unless the fallback applies, the articles
\* are as many as the Article elements that hold sentence text.
C16_NoEmptyUnits ==
  xpc = "done" =>
    /\ \A i \in DOMAIN law.articles :
         /\ law.articles[i].paragraphs # <<>>
         /\ \A j \in DOMAIN law.articles[i].paragraphs :
              /\ law.articles[i].paragraphs[j].items # <<>>
              /\ \A k \in DOMAIN law.articles[i].paragraphs[j].items :
                   LET t == law.articles[i].paragraphs[j].items[k].text
                   IN t # <<>> /\ normalize_text(t) = t
    /\ ~FallbackApplies => Len(law.articles) = Len(ArticlesWithText)

C16_Witness ==
  /\ xpc = "done"
  /\ xform.articles = "holding"
  /\ Len(xform.paragraphs) = 2
  /\ xform.paragraphs[1].sentence = <<"ids">>
  /\ xform.paragraphs[1].items = "none"
  /\ xform.paragraphs[2].sentence = <<"ids">>
  /\ xform.paragraphs[2].items = "plain"
  /\ Len(law.articles) = 1
  /\ Len(law.articles[1].paragraphs) = 1
  /\ Len(law.articles[1].paragraphs[1].items) = 1
  /\ law.articles[1].paragraphs[1].items[1].text = <<"hou">>

\* the Paragraph elements parse_law hands to parse_paragraph, in order, and
\* the paragraphs of the Law record, in order
ParagraphElems ==
  IF FallbackApplies THEN LawBodyParagraphs(xml.root)
  ELSE FlatMap(LAMBDA a : Children(a, "Paragraph"), FindAll(xml.root, "Article"))
ParagraphDicts == FlatMap(LAMBDA a : a.paragraphs, law.articles)

\* the paragraph-level sentence text of a Paragraph element and its items
\* that have text, parsed, in document order
PreambleOf(e) == extract_sentence_texts(Children(e, "ParagraphSentence"))
RealItems(e) == FlatMap(parse_item, Children(e, "Item"))

\* the Paragraph elements that have paragraph-level text or a real item
KeptParagraphs ==
  SelectSeq(ParagraphElems, LAMBDA e : PreambleOf(e) # <<>> \/ RealItems(e) # <<>>)

\* C19: the item list parse_paragraph gives a paragraph with paragraph-level
\* text and real items is a numberless item holding that text followed by
\* the real items in document order; with paragraph-level text only it is
\* that one numberless item.
C19_PreambleKept ==
  xpc = "done" =>
    LET kept == KeptParagraphs
        dicts == ParagraphDicts
    IN /\ Len(dicts) = Len(kept)
       /\ \A j \in DOMAIN kept :
            LET preamble == PreambleOf(kept[j])
            IN preamble # <<>> =>
                 dicts[j].items =
                   <<[item_no |-> NoneV, text |-> preamble]>> \o RealItems(kept[j])

C19_Witness ==
  /\ xpc = "done"
  /\ xform.articles = "listed"
  /\ Len(law.articles) = 1
  /\ Len(law.articles[1].paragraphs) = 1
  /\ law.articles[1].paragraphs[1].items =
       <<[item_no |-> NoneV, text |-> <<"min">>],
         [item_no |-> IntV(1), text |-> <<"hou">>],
         [item_no |-> StrV(<<"k1">>), text |-> <<"hou", " ", "min">>]>>

\* json.dump then json.load of the importer's dicts: every key is present
JsonItem(item) == [item_no |-> item.item_no, text |-> Some(item.text)]

JsonParagraph(paragraph) ==
  [paragraph_no |-> paragraph.paragraph_no,
   items |-> Some([i \in 1..Len(paragraph.items) |-> JsonItem(paragraph.items[i])]),
   text |-> None]

JsonArticle(article) ==
  [article_no |-> StrV(article.article_no),
   heading |-> Some(article.heading),
   paragraphs |-> Some([i \in 1..Len(article.paragraphs) |->
                          JsonParagraph(article.paragraphs[i])]),
   text |-> None]

\* the document collect_records loads from the file import_directory wrote
JsonDocument(d) ==
  [law_id |-> d.law_id,
   law_name |-> d.law_name,
   law_aliases |-> Some(d.law_aliases),
   year_enforced |-> d.year_enforced,
   articles |-> Some([i \in 1..Len(d.articles) |-> JsonArticle(d.articles[i])])]

\* the records and the actions of a build over the one imported document
ImportedRecords == collect_records(<<JsonDocument(law)>>)
ImportedActions == to_index_actions(ImportedRecords)

\* C13: no two distinct records of a build over an imported corpus receive
\* the same document id.
C13_DocumentIdsUnique ==
  xpc = "done" =>
    \A i, j \in DOMAIN ImportedActions :
      i # j => ImportedActions[i].id # ImportedActions[j].id

(***************************************************************************)
(* Bulk ingest as a state machine: one call of bulk, a step per request    *)
(* to the client; a request either succeeds or raises                      *)
(***************************************************************************)
MaxActions == 4
MaxChunk == 3

ActionPool ==
  {[id |-> <<"1">>, source |-> "one"], [id |-> <<"2">>, source |-> "two"]}

BulkInit ==
  /\ actions \in SeqsUpTo(ActionPool, MaxActions)
  /\ chunk_size \in 0..MaxChunk
  /\ refresh_at_end \in BOOLEAN
  /\ sent = 0
  /\ log = <<>>
  /\ bpc = "call"

notBulkVars ==
  <<citVars, kanjiVars, queryVars, markVars, hitVars, flatVars, xmlVars,
    idxVars>>

\* lines 133-134: nothing to do for an empty list
BulkCall ==
  /\ bpc = "call"
  /\ bpc' = IF actions = <<>> THEN "returned" ELSE "loop"
  /\ UNCHANGED <<actions, chunk_size, refresh_at_end, sent, log>>
  /\ UNCHANGED notBulkVars

\* lines 138-146: the next chunk is sent and the request returns
SendChunk ==
  /\ bpc = "loop"
  /\ log' = Append(log, BulkRequest(NextChunk(actions, sent, chunk_size), TRUE))
  /\ sent' = sent + Len(NextChunk(actions, sent, chunk_size))
  /\ bpc' = IF sent' = Len(actions) THEN "refresh" ELSE "loop"
  /\ UNCHANGED <<actions, chunk_size, refresh_at_end>>
  /\ UNCHANGED notBulkVars

\* the request raises and the chunk is sent again
SendChunkRetries ==
  /\ bpc = "loop"
  /\ Len(log) <= MaxActions
  /\ log' = Append(log, BulkRequest(NextChunk(actions, sent, chunk_size), FALSE))
  /\ bpc' = "loop"
  /\ UNCHANGED <<actions, chunk_size, refresh_at_end, sent>>
  /\ UNCHANGED notBulkVars

\* line 145: the request raises and bulk ends with the exception; the
\* count of processed actions (line 146) is not reached
SendChunkRaises ==
  /\ bpc = "loop"
  /\ log' = Append(log, BulkRequest(NextChunk(actions, sent, chunk_size), FALSE))
  /\ bpc' = "raised"
  /\ UNCHANGED <<actions, chunk_size, refresh_at_end, sent>>
  /\ UNCHANGED notBulkVars

\* lines 150-151: the refresh, when asked for, and the return
Refresh ==
  /\ bpc = "refresh"
  /\ log' = IF refresh_at_end THEN Append(log, RefreshRequest(TRUE)) ELSE log
  /\ bpc' = "returned"
  /\ UNCHANGED <<actions, chunk_size, refresh_at_end, sent>>
  /\ UNCHANGED notBulkVars

\* line 151: the refresh raises
RefreshRaises ==
  /\ bpc = "refresh"
  /\ refresh_at_end
  /\ log' = Append(log, RefreshRequest(FALSE))
  /\ bpc' = "raised"
  /\ UNCHANGED <<actions, chunk_size, refresh_at_end, sent>>
  /\ UNCHANGED notBulkVars

BulkNext ==
  \/ BulkCall
  \/ SendChunk
  \/ SendChunkRaises
  \/ Refresh
  \/ RefreshRaises

InitBulk ==
  BulkInit /\ CitOff /\ KanjiOff /\ QueryOff /\ MarkOff /\ HitOff /\ FlatOff
  /\ XmlOff /\ IdxOff

SpecBulk == InitBulk /\ [][BulkNext]_vars

\* the bulk requests of the log, in order
Sends == SelectSeq(log, LAMBDA r : r.op = "bulk")

\* the positions of the refresh requests in the log
RefreshesAt == {i \in 1..Len(log) : log[i].op = "refresh"}

\* every action is sent once and in input order, in chunks of exactly
\* chunk_size actions but for a final chunk that may be smaller, each
\* request with refresh disabled
ChunksAsClaimed ==
  /\ FlatMap(LAMBDA r : r.body, Sends) = BulkBody(actions)
  /\ \A i \in 1..Len(Sends) :
       /\ Sends[i].refresh = FALSE
       /\ Len(Sends[i].body) >= 2
       /\ Len(Sends[i].body) <= 2 * chunk_size
       /\ i < Len(Sends) => Len(Sends[i].body) = 2 * chunk_size

\* a refresh is the last request and follows the final chunk that was sent
RefreshOnlyAfterFinalChunk ==
  \A i \in RefreshesAt : i = Len(log) /\ sent = Len(actions)

FailedSends == {k \in 1..Len(log) : log[k].op = "bulk" /\ ~log[k].ok}

\* C17: when the send of chunk k raises, bulk has ended with the exception
\* and that send is the last request made: no later chunk, no second send
\* of a chunk and no refresh; the requests before it are the sends of the
\* chunks before k, which succeeded and are followed by no other request;
\* the bodies sent, the failed one included, are the first actions in order.
C17_FailedChunkEndsBulk ==
  \A k \in FailedSends :
    /\ bpc = "raised"
    /\ k = Len(log)
    /\ \A i \in 1..(k - 1) : log[i].op = "bulk" /\ log[i].ok
    /\ FlatMap(LAMBDA r : r.body, log)
         = SubSeq(BulkBody(actions), 1, 2 * (sent + Len(log[k].body) \div 2))
    /\ sent = (Len(FlatMap(LAMBDA r : r.body, SubSeq(log, 1, k - 1)))) \div 2

C17_Witness ==
  /\ bpc = "raised"
  /\ Len(actions) = 4
  /\ chunk_size = 1
  /\ refresh_at_end
  /\ Len(log) = 2
  /\ log[1].op = "bulk" /\ log[1].ok
  /\ log[2].op = "bulk" /\ ~log[2].ok
  /\ log[2].body # log[1].body
  /\ RefreshesAt = {}

(***************************************************************************)
(* ensure_index as a state machine: callers (/reindex requests, the index  *)
(* command) run ensure_index against one server, a step per request to the *)
(* client.  The server rejects the creation of an index that exists, and   *)
(* the exception ends the call.                                            *)
(***************************************************************************)
NumCallers == 3
MaxCalls == 2

Callers == 1..NumCallers

notIdxVars ==
  <<citVars, kanjiVars, queryVars, markVars, hitVars, flatVars, xmlVars,
    bulkVars>>

IdxInit ==
  /\ exists \in BOOLEAN
  /\ epc = [c \in Callers |-> "idle"]
  /\ calls = [c \in Callers |-> 0]
  /\ creates = <<>>

\* lines 107-109: a call starts with indices.exists and returns when the
\* index is there
EnsureIndexExists(c) ==
  /\ epc[c] \in {"idle", "returned", "raised"}
  /\ calls[c] < MaxCalls
  /\ calls' = [calls EXCEPT ![c] = calls[c] + 1]
  /\ epc' = [epc EXCEPT ![c] = IF exists THEN "returned" ELSE "create"]
  /\ UNCHANGED <<exists, creates>>
  /\ UNCHANGED notIdxVars

\* lines 110-111: indices.create, on whatever the server holds by now
EnsureIndexCreate(c) ==
  /\ epc[c] = "create"
  /\ creates' = Append(creates, [caller |-> c, existed |-> exists])
  /\ exists' = TRUE
  /\ epc' = [epc EXCEPT ![c] = IF exists THEN "raised" ELSE "returned"]
  /\ UNCHANGED calls
  /\ UNCHANGED notIdxVars

IndexNext ==
  \/ \E c \in Callers : EnsureIndexExists(c)
  \/ \E c \in Callers : EnsureIndexCreate(c)

InitIndex ==
  IdxInit /\ CitOff /\ KanjiOff /\ QueryOff /\ MarkOff /\ HitOff /\ FlatOff
  /\ XmlOff /\ BulkOff

SpecIndex == InitIndex /\ [][IndexNext]_vars

\* C9: over every interleaving of ensure_index calls the creation is issued
\* at most once, never against an index that exists, and the index exists
\* after every call that has completed.
C9_EnsureIndexIdempotent ==
  /\ Len(creates) <= 1
  /\ \A i \in 1..Len(creates) : ~creates[i].existed
  /\ \A c \in Callers : epc[c] \in {"returned", "raised"} => exists

====
